---- MODULE Spec2Model ----
(***************************************************************************)
(* FlexiMart ETL pipeline (part1-database-etl/etl_pipeline.py).            *)
(*                                                                         *)
(* Texts are sequences of one-character strings, so that the field         *)
(* normalizers work on characters as the Python code does.  A missing      *)
(* value (Python None / pandas NaN) is the one-element sequence NoneText.  *)
(* Money is an integer number of Units, Unit = 1/2000, so that both the    *)
(* third fractional digit of a price text and the half of a sum of two     *)
(* such prices (the median of an even group) are exact.                    *)
(*                                                                         *)
(* The rows carry the columns that decide what is kept, counted and        *)
(* referenced: the natural keys, email, category, price, stock, quantity,  *)
(* unit price and transaction date.  The name, phone, city,                *)
(* registration_date and status columns pass through their normalizers     *)
(* into the insert statements and influence no other column; they are not  *)
(* carried.  normalize_phone and parse_flex_date are also specified on     *)
(* their own (SpecPhone, SpecDate).  The check that the three files exist  *)
(* (lines 270-272) precedes everything modelled here.                      *)
(*                                                                         *)
(* pandas, the Decimal module and the MySQL server are modelled by their   *)
(* documented behaviour: pd.to_datetime(dayfirst=...) prefers an order     *)
(* and falls back to the other, TRUNCATE TABLE commits implicitly and is   *)
(* not rolled back, an AUTO_INCREMENT counter restarts at 1 on TRUNCATE.   *)
(***************************************************************************)
EXTENDS Integers, Sequences, FiniteSets, TLC

VARIABLES
    pc,              \* position of the running function
    phone_in,        \* argument of normalize_phone
    phone_out,       \* its result
    date_in,         \* argument of parse_flex_date
    date_out,        \* its result
    customers_raw,   \* customers_raw.csv, as read (dtype=str)
    products_raw,    \* products_raw.csv
    sales_raw,       \* sales_raw.csv
    customers,       \* the customers frame after the transform
    products,        \* the products frame after the transform
    sales,           \* the sales frame after the transform
    report,          \* the report dict
    committed,       \* the store: what every connection can observe
    working,         \* the store as the load connection sees it (uncommitted)
    autoinc,         \* AUTO_INCREMENT counter of each table
    cust_map,        \* raw customer_id -> surrogate key
    prod_map,        \* raw product_id -> surrogate key
    idx,             \* position of the current loop / statement
    conns,           \* number of open store connections
    report_written,  \* OUT_REPORT has been written by this run
    loaded,          \* the loop counters orders_loaded and items_loaded
    store_at_start,  \* the store's contents when the current run started
    runs             \* number of runs started so far

purevars == <<phone_in, phone_out, date_in, date_out>>
inputvars == <<customers_raw, products_raw, sales_raw>>
framevars == <<customers, products, sales, report>>
dbvars == <<committed, working, autoinc>>
loadvars == <<cust_map, prod_map, idx, conns, report_written, loaded, store_at_start, runs>>
vars == <<pc, purevars, inputvars, framevars, dbvars, loadvars>>

----------------------------------------------------------------------------
(* Bounds of the model *)

MaxPhoneDigits == 13
MaxDayPart == 32
MaxCustomers == 2
MaxProducts == 3
MaxSales == 2
MaxLoadRows == 2
MaxRuns == 2

----------------------------------------------------------------------------
(* Texts *)

NoneText == <<"None">>

DigitChars == <<"0", "1", "2", "3", "4", "5", "6", "7", "8", "9">>

IsDigit(c) == \E i \in 1..Len(DigitChars) : DigitChars[i] = c

DigitVal(c) == (CHOOSE i \in 1..Len(DigitChars) : DigitChars[i] = c) - 1

IsSpace(c) == c = " "

UpperChars ==
    <<"A", "B", "C", "D", "E", "F", "G", "H", "I", "J", "K", "L", "M",
      "N", "O", "P", "Q", "R", "S", "T", "U", "V", "W", "X", "Y", "Z">>
LowerChars ==
    <<"a", "b", "c", "d", "e", "f", "g", "h", "i", "j", "k", "l", "m",
      "n", "o", "p", "q", "r", "s", "t", "u", "v", "w", "x", "y", "z">>

\* str.lower() on one character
LowerChar(c) ==
    IF \E i \in 1..Len(UpperChars) : UpperChars[i] = c
    THEN LowerChars[CHOOSE i \in 1..Len(UpperChars) : UpperChars[i] = c]
    ELSE c

\* str.upper() on one character
UpperChar(c) ==
    IF \E i \in 1..Len(LowerChars) : LowerChars[i] = c
    THEN UpperChars[CHOOSE i \in 1..Len(LowerChars) : LowerChars[i] = c]
    ELSE c

IsAlpha(c) == LowerChar(c) # c \/ UpperChar(c) # c

\* str.lower()
Lower(s) == [i \in 1..Len(s) |-> LowerChar(s[i])]

\* str.title(): a letter is upper-cased after a non-letter, lower-cased after a letter
Title(s) ==
    [i \in 1..Len(s) |->
        IF i = 1 \/ ~IsAlpha(s[i - 1]) THEN UpperChar(s[i]) ELSE LowerChar(s[i])]

\* str.strip()
RECURSIVE LStrip(_)
LStrip(s) == IF s # <<>> /\ IsSpace(Head(s)) THEN LStrip(Tail(s)) ELSE s

RECURSIVE RStrip(_)
RStrip(s) ==
    IF s # <<>> /\ IsSpace(s[Len(s)]) THEN RStrip(SubSeq(s, 1, Len(s) - 1)) ELSE s

Strip(s) == LStrip(RStrip(s))

\* re.sub(r"\s+", " ", s): every run of whitespace becomes one space
RECURSIVE CollapseSpaces(_)
CollapseSpaces(s) ==
    IF s = <<>> THEN <<>>
    ELSE IF IsSpace(Head(s)) /\ Len(s) > 1 /\ IsSpace(s[2]) THEN CollapseSpaces(Tail(s))
    ELSE <<Head(s)>> \o CollapseSpaces(Tail(s))

normalize_spaces(s) ==
    IF s = NoneText THEN <<>> ELSE Strip(CollapseSpaces(s))

normalize_city(s) == Title(normalize_spaces(s))

\* mapping.get(s, s.title() if s else "")
CategoryMapping(s) ==
    IF s = <<"e", "l", "e", "c", "t", "r", "o", "n", "i", "c", "s">>
    THEN <<"E", "l", "e", "c", "t", "r", "o", "n", "i", "c", "s">>
    ELSE IF s = <<"f", "a", "s", "h", "i", "o", "n">>
    THEN <<"F", "a", "s", "h", "i", "o", "n">>
    ELSE IF s = <<"g", "r", "o", "c", "e", "r", "i", "e", "s">>
    THEN <<"G", "r", "o", "c", "e", "r", "i", "e", "s">>
    ELSE Title(s)

normalize_category(s) == CategoryMapping(Lower(normalize_spaces(s)))

StartsWith(s, p) == Len(s) >= Len(p) /\ SubSeq(s, 1, Len(p)) = p

LastN(s, n) == SubSeq(s, Len(s) - n + 1, Len(s))

Contains(s, c) == \E i \in 1..Len(s) : s[i] = c

\* int() of a text of digits
RECURSIVE IntOf(_)
IntOf(s) == IF s = <<>> THEN 0 ELSE 10 * IntOf(SubSeq(s, 1, Len(s) - 1)) + DigitVal(s[Len(s)])

AllDigits(s) == s # <<>> /\ \A i \in 1..Len(s) : IsDigit(s[i])

----------------------------------------------------------------------------
(* normalize_phone *)

\* re.sub(r"\D+", "", str(phone))
Digits(s) == SelectSeq(s, IsDigit)

\* a mutation of StripPrefix: the 0-trunk prefix and the over-long case are not handled
StripPrefixOnlyCountry(digits) ==
    IF Len(digits) = 12 /\ StartsWith(digits, <<"9", "1">>) THEN LastN(digits, 10)
    ELSE digits

StripPrefix(digits) ==
    IF Len(digits) = 12 /\ StartsWith(digits, <<"9", "1">>) THEN LastN(digits, 10)
    ELSE IF Len(digits) = 11 /\ StartsWith(digits, <<"0">>) THEN LastN(digits, 10)
    ELSE IF Len(digits) > 10 THEN LastN(digits, 10)
    ELSE digits

normalize_phone(phone) ==
    IF phone = NoneText \/ Strip(phone) = <<>> THEN NoneText
    ELSE LET digits == StripPrefix(Digits(phone))
         IN  IF Len(digits) # 10 THEN NoneText
             ELSE <<"+", "9", "1", "-">> \o digits

----------------------------------------------------------------------------
(* parse_flex_date *)

\* a date; NoDate is None (and, inside the parsers, a raised exception)
NoDate == [y |-> 0, m |-> 0, d |-> 0]

IsLeap(y) == (y % 4 = 0 /\ y % 100 # 0) \/ y % 400 = 0

DaysInMonth(y, m) ==
    IF m = 2 THEN (IF IsLeap(y) THEN 29 ELSE 28)
    ELSE IF m \in {4, 6, 9, 11} THEN 30 ELSE 31

MkDate(y, m, d) ==
    IF y >= 1 /\ m \in 1..12 /\ d >= 1 /\ d <= DaysInMonth(y, m)
    THEN [y |-> y, m |-> m, d |-> d]
    ELSE NoDate

\* str.split(delim)
RECURSIVE Split(_, _)
Split(s, delim) ==
    IF ~Contains(s, delim) THEN <<s>>
    ELSE LET k == CHOOSE i \in 1..Len(s) : s[i] = delim /\ \A j \in 1..(i - 1) : s[j] # delim
         IN  <<SubSeq(s, 1, k - 1)>> \o Split(SubSeq(s, k + 1, Len(s)), delim)

\* re.match(r"^\d{4}-\d{2}-\d{2}$", s)
MatchesIso(s) ==
    /\ Len(s) = 10
    /\ \A i \in 1..10 : IF i \in {5, 8} THEN s[i] = "-" ELSE IsDigit(s[i])

\* pd.to_datetime(s, format="%Y-%m-%d"): year of four digits, month and day
\* of one or two; NoDate when the text does not match or names no date
to_datetime_ymd(s) ==
    LET parts == Split(s, "-")
    IN  IF /\ Len(parts) = 3
           /\ \A i \in 1..3 : AllDigits(parts[i])
           /\ Len(parts[1]) = 4 /\ Len(parts[2]) <= 2 /\ Len(parts[3]) <= 2
        THEN MkDate(IntOf(parts[1]), IntOf(parts[2]), IntOf(parts[3]))
        ELSE NoDate

\* pd.to_datetime(s, dayfirst=...): the generic parser.  dayfirst is a
\* preference, not a format: when the preferred order names no date and the
\* other order does, the other order is taken.  Modelled on texts of three
\* all-digit parts with a four-digit year first or last; any other text raises.
to_datetime(s, dayfirst) ==
    LET delim == IF Contains(s, "/") THEN "/" ELSE "-"
        parts == Split(s, delim)
    IN  IF ~(Len(parts) = 3 /\ \A i \in 1..3 : AllDigits(parts[i])) THEN NoDate
        ELSE IF Len(parts[1]) = 4
        THEN MkDate(IntOf(parts[1]), IntOf(parts[2]), IntOf(parts[3]))
        ELSE IF Len(parts[3]) # 4 \/ Len(parts[1]) > 2 \/ Len(parts[2]) > 2 THEN NoDate
        ELSE LET y == IntOf(parts[3])
                 monthfirst == MkDate(y, IntOf(parts[1]), IntOf(parts[2]))
                 dayfirstd == MkDate(y, IntOf(parts[2]), IntOf(parts[1]))
             IN  IF dayfirst
                 THEN (IF dayfirstd # NoDate THEN dayfirstd ELSE monthfirst)
                 ELSE (IF monthfirst # NoDate THEN monthfirst ELSE dayfirstd)

\* a mutation of dayfirst_rule: the ambiguous case is read day-first
dayfirst_rule_ambiguous_dayfirst(ai, bi) ==
    IF bi > 12 THEN FALSE ELSE TRUE

\* the layout rule of parse_flex_date
dayfirst_rule(ai, bi) ==
    IF bi > 12 THEN FALSE
    ELSE IF ai > 12 THEN TRUE
    ELSE FALSE

parse_flex_date(s0) ==
    IF s0 = NoneText \/ Strip(s0) = <<>> THEN NoDate
    ELSE LET s == normalize_spaces(s0)
         IN  IF MatchesIso(s) THEN to_datetime_ymd(s)
             ELSE IF ~Contains(s, "/") /\ ~Contains(s, "-") THEN to_datetime(s, FALSE)
             ELSE LET delim == IF Contains(s, "/") THEN "/" ELSE "-"
                      parts == Split(s, delim)
                  IN  IF Len(parts) # 3 THEN to_datetime(s, FALSE)
                      ELSE IF Len(parts[1]) = 4
                      THEN (IF to_datetime_ymd(s) # NoDate THEN to_datetime_ymd(s)
                            ELSE to_datetime(s, FALSE))
                      ELSE IF ~(AllDigits(parts[1]) /\ AllDigits(parts[2]))
                      THEN to_datetime(s, FALSE)
                      ELSE to_datetime(s, dayfirst_rule(IntOf(parts[1]), IntOf(parts[2])))

----------------------------------------------------------------------------
(* Numbers.  A parsed number is [ok, v]: ok is FALSE for NaN, v counts Units  *)
(* of 1/2000.                                                               *)

NaN == [ok |-> FALSE, v |-> 0]

Num(v) == [ok |-> TRUE, v |-> v]

Abs(x) == IF x < 0 THEN -x ELSE x

Sign(x) == IF x < 0 THEN -1 ELSE 1

\* the digits after the decimal point, as thousandths: "5" is 500, "005" is 5
Thousandths(frac) ==
    IF Len(frac) = 1 THEN 100 * IntOf(frac)
    ELSE IF Len(frac) = 2 THEN 10 * IntOf(frac)
    ELSE IntOf(frac)

\* pd.to_numeric(text, errors="coerce") on one text: an optional minus sign,
\* digits, and optionally a point and one to three digits; anything else is NaN
to_numeric(text) ==
    LET neg == text # <<>> /\ Head(text) = "-"
        body == IF neg THEN Tail(text) ELSE text
        parts == Split(body, ".")
        sgn == IF neg THEN -1 ELSE 1
    IN  IF Len(parts) = 1 /\ AllDigits(parts[1])
        THEN Num(sgn * 2000 * IntOf(parts[1]))
        ELSE IF /\ Len(parts) = 2 /\ AllDigits(parts[1]) /\ AllDigits(parts[2])
                /\ Len(parts[2]) <= 3
        THEN Num(sgn * (2000 * IntOf(parts[1]) + 2 * Thousandths(parts[2])))
        ELSE NaN

\* Decimal(str(x)).quantize(Decimal("0.01"), rounding=ROUND_HALF_UP): the result
\* in cents; ROUND_HALF_UP rounds a tie away from zero
to_decimal_2(x) == Sign(x) * ((Abs(x) + 10) \div 20)

\* Series.astype(int) on a number: truncation toward zero
astype_int(x) == Sign(x) * (Abs(x) \div 2000)

\* a sequence of integers in ascending order
RECURSIVE SortInts(_)
SortInts(s) ==
    IF s = <<>> THEN <<>>
    ELSE LET k == CHOOSE i \in 1..Len(s) : \A j \in 1..Len(s) : s[i] <= s[j]
             rest == [i \in 1..(Len(s) - 1) |-> IF i < k THEN s[i] ELSE s[i + 1]]
         IN  <<s[k]>> \o SortInts(rest)

\* a mutation of median: the lower of the two middle values of an even group
median_lower_middle(vals) ==
    LET sorted == SortInts(vals)
    IN  IF Len(vals) = 0 THEN NaN ELSE Num(sorted[(Len(vals) + 1) \div 2])

\* Series.median() of the values that are not NaN: NaN for none, the middle
\* value for an odd count, the mean of the two middle values for an even count
median(vals) ==
    LET sorted == SortInts(vals)
        n == Len(vals)
    IN  IF n = 0 THEN NaN
        ELSE IF n % 2 = 1 THEN Num(sorted[(n + 1) \div 2])
        ELSE Num((sorted[n \div 2] + sorted[n \div 2 + 1]) \div 2)

----------------------------------------------------------------------------
(* The transform of run_etl *)

\* a mutation of drop_duplicates: keep="last"
RECURSIVE drop_duplicates_keep_last(_, _)
drop_duplicates_keep_last(rows, key) ==
    IF rows = <<>> THEN <<>>
    ELSE IF \E j \in 2..Len(rows) : rows[j][key] = rows[1][key]
    THEN drop_duplicates_keep_last(Tail(rows), key)
    ELSE <<rows[1]>> \o drop_duplicates_keep_last(Tail(rows), key)

\* DataFrame.drop_duplicates(subset=[key], keep="first")
RECURSIVE drop_duplicates(_, _)
drop_duplicates(rows, key) ==
    IF rows = <<>> THEN <<>>
    ELSE LET n == Len(rows)
             init == drop_duplicates(SubSeq(rows, 1, n - 1), key)
         IN  IF \E j \in 1..(n - 1) : rows[j][key] = rows[n][key]
             THEN init
             ELSE Append(init, rows[n])

\* DataFrame.applymap(normalize_spaces): every cell of every row
applymap_normalize_spaces(rows) ==
    [i \in 1..Len(rows) |-> [f \in DOMAIN rows[i] |-> normalize_spaces(rows[i][f])]]

\* f"unknown+{cid.lower()}@fleximart.local"
placeholder_email(cid) == <<"u", "n", "k", "n", "o", "w", "n", "+">> \o Lower(cid) \o <<"@", "f", "l", "e", "x", "i", "m", "a", "r", "t", ".", "l", "o", "c", "a", "l">>

Column(rows, f) == {rows[i][f] : i \in 1..Len(rows)}

\* customers after deduplication
customers_deduped(craw) == drop_duplicates(applymap_normalize_spaces(craw), "customer_id")

missing_email(row) == row.email = <<>>

\* the customers frame: placeholder for a missing email, then all emails lower-cased
clean_customers(craw) ==
    LET c == customers_deduped(craw)
    IN  [i \in 1..Len(c) |->
            [customer_id |-> c[i].customer_id,
             email |-> Lower(IF missing_email(c[i])
                             THEN placeholder_email(c[i].customer_id)
                             ELSE c[i].email)]]

\* products after deduplication, with the category normalized and the price parsed
products_deduped(praw) ==
    LET p == drop_duplicates(applymap_normalize_spaces(praw), "product_id")
    IN  [i \in 1..Len(p) |->
            [product_id |-> p[i].product_id,
             category |-> normalize_category(p[i].category),
             price_num |-> to_numeric(p[i].price),
             stock_quantity |-> p[i].stock_quantity]]

\* the prices of a category that parsed, in row order
RECURSIVE category_prices(_, _)
category_prices(p, cat) ==
    IF p = <<>> THEN <<>>
    ELSE IF p[1].category = cat /\ p[1].price_num.ok
    THEN <<p[1].price_num.v>> \o category_prices(Tail(p), cat)
    ELSE category_prices(Tail(p), cat)

\* products.groupby("category")["price_num"].median(), looked up for one category
medians(p, cat) == median(category_prices(p, cat))

\* impute_price(row): the category median for a missing price (NaN when the
\* category has none), the row's own price otherwise
impute_price(p, row) ==
    IF ~row.price_num.ok THEN medians(p, row.category) ELSE row.price_num

has_price(row) == row.price_num.ok

\* the products frame: price imputed, rows still without a price dropped,
\* stock parsed with NaN filled by 0
clean_products(praw) ==
    LET p == products_deduped(praw)
        imputed == [i \in 1..Len(p) |-> [p[i] EXCEPT !.price_num = impute_price(p, p[i])]]
        kept == SelectSeq(imputed, has_price)
    IN  [i \in 1..Len(kept) |->
            [product_id |-> kept[i].product_id,
             category |-> kept[i].category,
             price_num |-> kept[i].price_num.v,
             stock_num |-> IF to_numeric(kept[i].stock_quantity).ok
                           THEN astype_int(to_numeric(kept[i].stock_quantity).v)
                           ELSE 0]]

\* rows of the deduplicated products whose price text did not parse
missing_price_count(praw) ==
    Len(SelectSeq(products_deduped(praw), LAMBDA r : ~r.price_num.ok))

\* rows of the products frame whose stock text did not parse
missing_stock_count(praw) ==
    LET p == products_deduped(praw)
        imputed == [i \in 1..Len(p) |-> [p[i] EXCEPT !.price_num = impute_price(p, p[i])]]
    IN  Len(SelectSeq(imputed, LAMBDA r : r.price_num.ok /\ ~to_numeric(r.stock_quantity).ok))

\* sales after deduplication
sales_deduped(sraw) == drop_duplicates(applymap_normalize_spaces(sraw), "transaction_id")

missing_cust(row) == row.customer_id = <<>>

missing_prod(row) == row.product_id = <<>>

\* sales without the rows that have no customer_id
sales_with_customer(sraw) == SelectSeq(sales_deduped(sraw), LAMBDA r : ~missing_cust(r))

\* ... and without the rows that have no product_id
sales_with_product(sraw) == SelectSeq(sales_with_customer(sraw), LAMBDA r : ~missing_prod(r))

\* pd.to_numeric(quantity, errors="coerce").fillna(0).astype(int)
quantity_num(row) ==
    IF to_numeric(row.quantity).ok THEN astype_int(to_numeric(row.quantity).v) ELSE 0

\* ... with a positive quantity and a unit price that parses
sales_priced(sraw) ==
    SelectSeq(sales_with_product(sraw),
              LAMBDA r : quantity_num(r) > 0 /\ to_numeric(r.unit_price).ok)

invalid_date(row) == parse_flex_date(row.transaction_date) = NoDate

\* ... and a transaction date that parses
sales_dated(sraw) == SelectSeq(sales_priced(sraw), LAMBDA r : ~invalid_date(r))

\* a mutation of isin_known_ids: the product filter is left out
isin_known_customers_only(rows, customer_ids, product_ids) ==
    SelectSeq(rows, LAMBDA r : r.customer_id \in customer_ids)

\* sales[sales["customer_id"].isin(valid_customer_ids)] and then
\* sales[sales["product_id"].isin(valid_product_ids)]
isin_known_ids(rows, customer_ids, product_ids) ==
    SelectSeq(SelectSeq(rows, LAMBDA r : r.customer_id \in customer_ids),
              LAMBDA r : r.product_id \in product_ids)

\* the sales frame
clean_sales(craw, praw, sraw) ==
    LET kept == isin_known_ids(sales_dated(sraw),
                               Column(clean_customers(craw), "customer_id"),
                               Column(clean_products(praw), "product_id"))
    IN  [i \in 1..Len(kept) |->
            [transaction_id |-> kept[i].transaction_id,
             customer_id |-> kept[i].customer_id,
             product_id |-> kept[i].product_id,
             quantity_num |-> quantity_num(kept[i]),
             unit_price_num |-> to_numeric(kept[i].unit_price).v,
             transaction_date_parsed |-> parse_flex_date(kept[i].transaction_date)]]

\* the report dict as the transform leaves it
transform_report(craw, praw, sraw) ==
    [customers_raw |-> Len(craw),
     products_raw |-> Len(praw),
     sales_raw |-> Len(sraw),
     customers_dupes_removed |-> Len(craw) - Len(customers_deduped(craw)),
     products_dupes_removed |-> Len(praw) - Len(products_deduped(praw)),
     sales_dupes_removed |-> Len(sraw) - Len(sales_deduped(sraw)),
     customers_missing_email_filled |-> Len(SelectSeq(customers_deduped(craw), missing_email)),
     products_missing_price_imputed |-> missing_price_count(praw),
     products_missing_stock_filled |-> missing_stock_count(praw),
     sales_missing_customer_dropped |-> Len(SelectSeq(sales_deduped(sraw), missing_cust)),
     sales_missing_product_dropped |-> Len(SelectSeq(sales_with_customer(sraw), missing_prod)),
     sales_invalid_date_dropped |-> Len(SelectSeq(sales_priced(sraw), invalid_date)),
     customers_loaded |-> 0,
     products_loaded |-> 0,
     orders_loaded |-> 0,
     order_items_loaded |-> 0]

----------------------------------------------------------------------------
(* The store *)

\* the four tables of SCHEMA_SQL, empty
EmptyStore == [customers |-> {}, products |-> {}, orders |-> {}, order_items |-> {}]

\* AUTO_INCREMENT of a new or truncated table
FreshAutoinc == [customers |-> 1, products |-> 1, orders |-> 1, order_items |-> 1]

\* a truncate_tables that leaves the products table alone
TruncateOrderSparingProducts == <<"order_items", "orders", "customers">>

\* the tables in the order truncate_tables clears them
TruncateOrder == <<"order_items", "orders", "products", "customers">>

\* dict.get(key): 0 stands for None
MapGet(map, key) ==
    IF \E e \in map : e.key = key THEN (CHOOSE e \in map : e.key = key).pk ELSE 0

\* map[key] = pk
MapPut(map, key, pk) == {e \in map : e.key # key} \cup {[key |-> key, pk |-> pk]}

\* the state of the process before run_etl has done anything
NotStarted ==
    /\ customers = <<>>
    /\ products = <<>>
    /\ sales = <<>>
    /\ report = [n \in {} |-> 0]
    /\ cust_map = {}
    /\ prod_map = {}
    /\ idx = 0
    /\ conns = 0
    /\ report_written = FALSE
    /\ loaded = [orders |-> 0, items |-> 0]

PureIdle ==
    /\ phone_in = NoneText
    /\ phone_out = NoneText
    /\ date_in = NoneText
    /\ date_out = NoDate

----------------------------------------------------------------------------
(* run_etl *)

\* lines 274-387: read the three files and transform them
Transform ==
    /\ pc = "extract"
    /\ customers' = clean_customers(customers_raw)
    /\ products' = clean_products(products_raw)
    /\ sales' = clean_sales(customers_raw, products_raw, sales_raw)
    /\ report' = transform_report(customers_raw, products_raw, sales_raw)
    /\ pc' = "ensure"
    /\ UNCHANGED <<purevars, inputvars, dbvars, loadvars>>

\* ensure_database_and_schema: two connections opened and closed; CREATE ... IF
\* NOT EXISTS leaves existing tables and their rows alone
ensure_database_and_schema ==
    /\ pc = "ensure"
    /\ pc' = "connect"
    /\ UNCHANGED <<purevars, inputvars, framevars, dbvars, loadvars>>

\* ensure_database_and_schema raises: in get_conn (nothing is open) or in a
\* statement or commit after it (the connection is not closed: no try/finally)
ensure_database_and_schema_raises ==
    /\ pc = "ensure"
    /\ \E leaked \in {0, 1} : conns' = conns + leaked
    /\ pc' = "failed"
    /\ UNCHANGED <<purevars, inputvars, framevars, dbvars>>
    /\ UNCHANGED <<cust_map, prod_map, idx, report_written, loaded, store_at_start, runs>>

\* conn = get_conn(cfg, use_db=True), autocommit off
get_conn ==
    /\ pc = "connect"
    /\ conns' = conns + 1
    /\ working' = committed
    /\ pc' = "truncate"
    /\ idx' = 1
    /\ UNCHANGED <<purevars, inputvars, framevars, committed, autoinc>>
    /\ UNCHANGED <<cust_map, prod_map, report_written, loaded, store_at_start, runs>>

\* get_conn raises: before the try block, nothing to close
get_conn_raises ==
    /\ pc = "connect"
    /\ pc' = "failed"
    /\ UNCHANGED <<purevars, inputvars, framevars, dbvars, loadvars>>

\* except: conn.rollback(); raise -- finally: conn.close()
Raise ==
    /\ working' = committed
    /\ conns' = conns - 1
    /\ pc' = "failed"
    /\ UNCHANGED <<purevars, inputvars, framevars, committed>>
    /\ UNCHANGED <<cust_map, prod_map, idx, report_written, loaded, store_at_start, runs>>

\* one TRUNCATE TABLE of truncate_tables.  TRUNCATE is DDL: it commits the
\* open transaction, empties the table for every observer, resets its
\* AUTO_INCREMENT, and no rollback brings the rows back.  After the fourth,
\* conn.commit() and cust_map = {}.
truncate_tables ==
    /\ pc = "truncate"
    /\ idx \in 1..Len(TruncateOrder)
    /\ committed' = [working EXCEPT ![TruncateOrder[idx]] = {}]
    /\ working' = committed'
    /\ autoinc' = [autoinc EXCEPT ![TruncateOrder[idx]] = 1]
    /\ IF idx < Len(TruncateOrder)
       THEN /\ idx' = idx + 1
            /\ UNCHANGED <<pc, cust_map>>
       ELSE /\ idx' = 1
            /\ pc' = "customers"
            /\ cust_map' = {}
    /\ UNCHANGED <<purevars, inputvars, framevars>>
    /\ UNCHANGED <<prod_map, conns, report_written, loaded, store_at_start, runs>>

\* one INSERT INTO customers; email is UNIQUE, a second row with the same
\* email raises
insert_customer ==
    /\ pc = "customers"
    /\ idx \in 1..Len(customers)
    /\ LET r == customers[idx]
       IN  IF \E c \in working.customers : c.email = r.email
           THEN /\ Raise
                /\ UNCHANGED autoinc
           ELSE /\ working' = [working EXCEPT !.customers =
                        @ \cup {[customer_id |-> autoinc.customers, email |-> r.email]}]
                /\ autoinc' = [autoinc EXCEPT !.customers = @ + 1]
                /\ cust_map' = MapPut(cust_map, r.customer_id, autoinc.customers)
                /\ idx' = idx + 1
                /\ UNCHANGED <<pc, purevars, inputvars, framevars, committed>>
                /\ UNCHANGED <<prod_map, conns, report_written, loaded, store_at_start, runs>>

\* report["customers_loaded"] = len(cust_map); prod_map = {}
customers_loaded ==
    /\ pc = "customers"
    /\ idx > Len(customers)
    /\ report' = [report EXCEPT !.customers_loaded = Cardinality(cust_map)]
    /\ prod_map' = {}
    /\ idx' = 1
    /\ pc' = "products"
    /\ UNCHANGED <<purevars, inputvars, customers, products, sales, dbvars>>
    /\ UNCHANGED <<cust_map, conns, report_written, loaded, store_at_start, runs>>

\* one INSERT INTO products
insert_product ==
    /\ pc = "products"
    /\ idx \in 1..Len(products)
    /\ LET r == products[idx]
       IN  /\ working' = [working EXCEPT !.products =
                  @ \cup {[product_id |-> autoinc.products,
                           category |-> r.category,
                           price |-> to_decimal_2(r.price_num),
                           stock_quantity |-> r.stock_num]}]
           /\ prod_map' = MapPut(prod_map, r.product_id, autoinc.products)
    /\ autoinc' = [autoinc EXCEPT !.products = @ + 1]
    /\ idx' = idx + 1
    /\ UNCHANGED <<pc, purevars, inputvars, framevars, committed>>
    /\ UNCHANGED <<cust_map, conns, report_written, loaded, store_at_start, runs>>

\* report["products_loaded"] = len(prod_map); orders_loaded = items_loaded = 0
products_loaded ==
    /\ pc = "products"
    /\ idx > Len(products)
    /\ report' = [report EXCEPT !.products_loaded = Cardinality(prod_map)]
    /\ loaded' = [orders |-> 0, items |-> 0]
    /\ idx' = 1
    /\ pc' = "orders"
    /\ UNCHANGED <<purevars, inputvars, customers, products, sales, dbvars>>
    /\ UNCHANGED <<cust_map, prod_map, conns, report_written, store_at_start, runs>>

\* the first half of one pass of the sales loop: look both keys up, skip the
\* row when one is missing, else INSERT INTO orders (customer_id is a foreign key)
insert_order ==
    /\ pc = "orders"
    /\ idx \in 1..Len(sales)
    /\ LET r == sales[idx]
           cust_pk == MapGet(cust_map, r.customer_id)
           prod_pk == MapGet(prod_map, r.product_id)
           unit_price == to_decimal_2(r.unit_price_num)
           subtotal == to_decimal_2(20 * unit_price * r.quantity_num)
       IN  IF cust_pk = 0 \/ prod_pk = 0
           THEN /\ idx' = idx + 1
                /\ UNCHANGED <<pc, purevars, inputvars, framevars, dbvars>>
                /\ UNCHANGED <<cust_map, prod_map, conns, report_written, loaded,
                               store_at_start, runs>>
           ELSE IF ~\E c \in working.customers : c.customer_id = cust_pk
           THEN /\ Raise
                /\ UNCHANGED autoinc
           ELSE /\ working' = [working EXCEPT !.orders =
                        @ \cup {[order_id |-> autoinc.orders,
                                 customer_id |-> cust_pk,
                                 order_date |-> r.transaction_date_parsed,
                                 total_amount |-> subtotal]}]
                /\ autoinc' = [autoinc EXCEPT !.orders = @ + 1]
                /\ loaded' = [loaded EXCEPT !.orders = @ + 1]
                /\ pc' = "items"
                /\ UNCHANGED <<purevars, inputvars, framevars, committed>>
                /\ UNCHANGED <<cust_map, prod_map, idx, conns, report_written,
                               store_at_start, runs>>

\* the second half: INSERT INTO order_items (order_id and product_id are
\* foreign keys), order_id being the lastrowid of the order just inserted
insert_order_item ==
    /\ pc = "items"
    /\ LET r == sales[idx]
           order_id == autoinc.orders - 1
           prod_pk == MapGet(prod_map, r.product_id)
           unit_price == to_decimal_2(r.unit_price_num)
           subtotal == to_decimal_2(20 * unit_price * r.quantity_num)
       IN  IF \/ ~\E o \in working.orders : o.order_id = order_id
              \/ ~\E p \in working.products : p.product_id = prod_pk
           THEN /\ Raise
                /\ UNCHANGED autoinc
           ELSE /\ working' = [working EXCEPT !.order_items =
                        @ \cup {[order_item_id |-> autoinc.order_items,
                                 order_id |-> order_id,
                                 product_id |-> prod_pk,
                                 quantity |-> r.quantity_num,
                                 unit_price |-> unit_price,
                                 subtotal |-> subtotal]}]
                /\ autoinc' = [autoinc EXCEPT !.order_items = @ + 1]
                /\ loaded' = [loaded EXCEPT !.items = @ + 1]
                /\ idx' = idx + 1
                /\ pc' = "orders"
                /\ UNCHANGED <<purevars, inputvars, framevars, committed>>
                /\ UNCHANGED <<cust_map, prod_map, conns, report_written,
                               store_at_start, runs>>

\* the loop is over: the two counters go to the report, conn.commit(),
\* cur.close(), and finally conn.close()
commit ==
    /\ pc = "orders"
    /\ idx > Len(sales)
    /\ report' = [report EXCEPT !.orders_loaded = loaded.orders,
                                !.order_items_loaded = loaded.items]
    /\ committed' = working
    /\ conns' = conns - 1
    /\ pc' = "report"
    /\ UNCHANGED <<purevars, inputvars, customers, products, sales, working, autoinc>>
    /\ UNCHANGED <<cust_map, prod_map, idx, report_written, loaded, store_at_start, runs>>

\* OUT_REPORT.write_text(...)
write_report ==
    /\ pc = "report"
    /\ report_written' = TRUE
    /\ pc' = "done"
    /\ UNCHANGED <<purevars, inputvars, framevars, dbvars>>
    /\ UNCHANGED <<cust_map, prod_map, idx, conns, loaded, store_at_start, runs>>

\* a statement of the load, or the commit, raises (connectivity loss, a
\* constraint the model does not carry): the except and finally clauses run
statement_raises ==
    /\ pc \in {"truncate", "customers", "products", "orders", "items"}
    /\ Raise
    /\ UNCHANGED autoinc

----------------------------------------------------------------------------
(* Inputs *)

\* every sequence over S of length at most n
BoundedSeq(S, n) == UNION {[1..k -> S] : k \in 0..n}

Key(letter, i) == <<letter, DigitChars[i + 1]>>

\* a well-formed file of n rows: customer i has an email when i is odd
LoadCustomer(i) ==
    [customer_id |-> Key("C", i),
     email |-> IF i % 2 = 1 THEN <<"U", DigitChars[i + 1]>> \o <<"@", "x", ".", "c", "o", "m">> ELSE <<>>]

LoadProduct(i) ==
    [product_id |-> Key("P", i),
     category |-> <<"F", "a", "s", "h", "i", "o", "n">>,
     price |-> <<DigitChars[i + 1]>> \o <<"9", ".", "9", "9">>,
     stock_quantity |-> <<"5">>]

LoadSale(i) ==
    [transaction_id |-> Key("T", i),
     customer_id |-> Key("C", 1),
     product_id |-> Key("P", 1),
     quantity |-> <<DigitChars[i + 1]>>,
     unit_price |-> <<"1", "9", ".", "9", "9">>,
     transaction_date |-> <<"2", "0", "2", "4", "-", "0", "3", "-", "0", "5">>]

LoadCustomers(n) == [i \in 1..n |-> LoadCustomer(i)]
LoadProducts(n) == [i \in 1..n |-> LoadProduct(i)]
LoadSales(n) == [i \in 1..n |-> LoadSale(i)]

\* customers whose keys differ in case only and whose emails are missing,
\* repeated, or differ in case only
CustomerRows ==
    [customer_id : {<<"C", "1">>, <<"c", "1">>, <<"C", "2">>},
     email : {<<>>, <<"A", "@", "x", ".", "c", "o", "m">>, <<"a", "@", "x", ".", "c", "o", "m">>}]

\* the product rows that may stand at position i: the key of the position, two
\* spellings of one category and another category, and a price that is
\* missing, negative, of three fractional digits, or plain; at the second
\* position also a row that repeats the key of the first
ProductRowsAt(i) ==
    [product_id : {Key("P", i)},
     category : {IF i % 2 = 1 THEN <<"F", "a", "s", "h", "i", "o", "n">> ELSE <<" ", "f", "a", "s", "h", "i", "o", "n", " ">>, <<"t", "o", "y", "s">>},
     price : {<<>>, <<"-", "5">>, <<"0", ".", "0", "0", "5">>, <<"1", "0", "0", ".", "0", "0">>, <<"3", "0", "0", ".", "0", "0">>},
     stock_quantity : {<<"5">>}]
    \cup (IF i = 2 THEN {[LoadProduct(1) EXCEPT !.price = <<"3", "0", "0", ".", "0", "0">>]} ELSE {})

ProductInputs ==
    UNION {{p \in [1..k -> UNION {ProductRowsAt(i) : i \in 1..k}] :
               \A i \in 1..k : p[i] \in ProductRowsAt(i)} : k \in 0..MaxProducts}

\* a sound sales row and the rows that differ from it in one field
GoodSale(t) ==
    [transaction_id |-> t,
     customer_id |-> Key("C", 1),
     product_id |-> Key("P", 1),
     quantity |-> <<"2">>,
     unit_price |-> <<"2", ".", "5", "0", "5">>,
     transaction_date |-> <<"1", "5", "/", "0", "1", "/", "2", "0", "2", "4">>]

SaleRowsOf(t) ==
    {GoodSale(t),
     [GoodSale(t) EXCEPT !.customer_id = <<>>],
     [GoodSale(t) EXCEPT !.customer_id = Key("C", 9)],
     [GoodSale(t) EXCEPT !.product_id = <<>>],
     [GoodSale(t) EXCEPT !.product_id = Key("P", 9)],
     [GoodSale(t) EXCEPT !.product_id = Key("P", 2)],
     [GoodSale(t) EXCEPT !.quantity = <<"0">>],
     [GoodSale(t) EXCEPT !.unit_price = <<"n", "/", "a">>],
     [GoodSale(t) EXCEPT !.transaction_date = <<"3", "1", "/", "0", "2", "/", "2", "0", "2", "4">>]}

\* the sales rows that may stand at position i: the key of the position and,
\* at the second position, also the key of the first
SaleRowsAt(i) ==
    SaleRowsOf(Key("T", i)) \cup (IF i = 2 THEN SaleRowsOf(Key("T", 1)) ELSE {})

SaleInputs ==
    UNION {{s \in [1..k -> UNION {SaleRowsAt(i) : i \in 1..k}] :
               \A i \in 1..k : s[i] \in SaleRowsAt(i)} : k \in 0..MaxSales}

\* customer and product files for the sales runs: one row each; a repeated
\* key in each, the two rows differing; two customers and a second product
\* that has no price and no priced peer in its category
SalesRunFiles ==
    {[c |-> LoadCustomers(1), p |-> LoadProducts(1)],
     [c |-> <<LoadCustomer(1), [LoadCustomer(1) EXCEPT !.email = <<"d", "u", "p", "@", "x", ".", "c", "o", "m">>]>>,
      p |-> <<LoadProduct(1), [LoadProduct(1) EXCEPT !.price = <<"1", ".", "0", "0">>]>>],
     [c |-> LoadCustomers(2),
      p |-> <<LoadProduct(1),
              [LoadProduct(2) EXCEPT !.category = <<"t", "o", "y", "s">>, !.price = <<>>]>>]}

----------------------------------------------------------------------------
(* Specifications *)

\* the process starts on the given files against the given store
Start(craw, praw, sraw, store) ==
    /\ pc = "extract"
    /\ customers_raw = craw
    /\ products_raw = praw
    /\ sales_raw = sraw
    /\ committed = store
    /\ working = store
    /\ autoinc = FreshAutoinc
    /\ store_at_start = store
    /\ runs = 1
    /\ NotStarted
    /\ PureIdle

\* the files of the load runs
LoadInputs ==
    [c : {LoadCustomers(n) : n \in 1..MaxLoadRows},
     p : {LoadProducts(n) : n \in 1..MaxLoadRows},
     s : {LoadSales(n) : n \in 0..MaxLoadRows}]

Init ==
    \E in \in LoadInputs : Start(in.c, in.p, in.s, EmptyStore)

\* run_etl is started again, on any files, against the store as the run
\* before left it; the connections of the old process are gone
NewRun ==
    /\ pc \in {"done", "failed"}
    /\ runs < MaxRuns
    /\ runs' = runs + 1
    /\ \E in \in LoadInputs :
          /\ customers_raw' = in.c
          /\ products_raw' = in.p
          /\ sales_raw' = in.s
    /\ pc' = "extract"
    /\ store_at_start' = committed
    /\ working' = committed
    /\ customers' = <<>>
    /\ products' = <<>>
    /\ sales' = <<>>
    /\ report' = [n \in {} |-> 0]
    /\ cust_map' = {}
    /\ prod_map' = {}
    /\ idx' = 0
    /\ conns' = 0
    /\ report_written' = FALSE
    /\ loaded' = [orders |-> 0, items |-> 0]
    /\ UNCHANGED <<purevars, committed, autoinc>>

RunOnce ==
    \/ Transform
    \/ ensure_database_and_schema
    \/ ensure_database_and_schema_raises
    \/ get_conn
    \/ get_conn_raises
    \/ truncate_tables
    \/ insert_customer
    \/ customers_loaded
    \/ insert_product
    \/ products_loaded
    \/ insert_order
    \/ insert_order_item
    \/ commit
    \/ write_report
    \/ statement_raises

Next == RunOnce \/ NewRun

Spec == Init /\ [][Next]_vars

\* one run on customer files of every shape
InitCustomers ==
    \E c \in BoundedSeq(CustomerRows, MaxCustomers), n \in 0..1 :
        Start(c, LoadProducts(1), LoadSales(n), EmptyStore)

SpecCustomers == InitCustomers /\ [][RunOnce]_vars

\* one run on product files of every shape
InitProducts ==
    \E p \in ProductInputs :
        Start(LoadCustomers(1), p, LoadSales(1), EmptyStore)

SpecProducts == InitProducts /\ [][RunOnce]_vars

\* one run on sales files of every shape
InitSales ==
    \E f \in SalesRunFiles, s \in SaleInputs :
        Start(f.c, f.p, s, EmptyStore)

SpecSales == InitSales /\ [][RunOnce]_vars

\* the stock texts of a products file: a count, a blank, a word, a negative
\* count, and two fractions
StockTexts ==
    {<<"5">>, <<>>, <<"n", "/", "a">>, <<"-", "3">>, <<"2", ".", "7">>, <<"-", "0", ".", "5">>}

\* the product rows that may stand at position i of a file whose prices are sound
StockRowsAt(i) == {[LoadProduct(i) EXCEPT !.stock_quantity = t] : t \in StockTexts}

StockInputs ==
    UNION {{p \in [1..k -> UNION {StockRowsAt(i) : i \in 1..k}] :
               \A i \in 1..k : p[i] \in StockRowsAt(i)} : k \in 0..MaxProducts}

\* one run on product files with stock texts of every shape
InitStock ==
    \E p \in StockInputs :
        Start(LoadCustomers(1), p, LoadSales(1), EmptyStore)

SpecStock == InitStock /\ [][RunOnce]_vars

----------------------------------------------------------------------------
(* The field normalizers on their own *)

\* n digits: d1, d2, and then the digit of the position
DigitRun(d1, d2, n) ==
    [i \in 1..n |-> IF i = 1 THEN d1 ELSE IF i = 2 THEN d2 ELSE DigitChars[(i % 10) + 1]]

TenDigitNumbers == {DigitRun(d1, d2, 10) : d1 \in {"0", "5", "9"}, d2 \in {"1", "7"}}

\* the four spellings of a ten-digit number
PhoneVariants(n) ==
    {n, <<"+", "9", "1", "-">> \o n, <<"0">> \o n, <<"9", "1">> \o n}

\* a run of digits bare, with a plus sign and a dash after the second digit,
\* or between blanks with a blank after the second digit
FirstTwo(run) == SubSeq(run, 1, IF Len(run) < 2 THEN Len(run) ELSE 2)

PhoneSpellings(run) ==
    {run,
     <<"+">> \o FirstTwo(run) \o <<"-">> \o SubSeq(run, 3, Len(run)),
     <<" ">> \o FirstTwo(run) \o <<" ">> \o SubSeq(run, 3, Len(run)) \o <<" ", " ">>}

PhoneInputs ==
    UNION {PhoneVariants(n) : n \in TenDigitNumbers}
    \cup UNION {PhoneSpellings(DigitRun(d1, d2, n)) :
                   d1 \in {"0", "5", "9"}, d2 \in {"1", "7"}, n \in 0..MaxPhoneDigits}
    \cup {NoneText, <<>>, <<" ", " ">>, <<"n", "/", "a">>}

InitPhone ==
    /\ pc = "phone"
    /\ phone_in \in PhoneInputs
    /\ phone_out = NoneText
    /\ date_in = NoneText
    /\ date_out = NoDate
    /\ customers_raw = <<>>
    /\ products_raw = <<>>
    /\ sales_raw = <<>>
    /\ committed = EmptyStore
    /\ working = EmptyStore
    /\ autoinc = FreshAutoinc
    /\ store_at_start = EmptyStore
    /\ runs = 0
    /\ NotStarted

\* customers["phone"].apply(normalize_phone), one value
NormalizePhone ==
    /\ pc = "phone"
    /\ phone_out' = normalize_phone(phone_in)
    /\ pc' = "phone_done"
    /\ UNCHANGED <<phone_in, date_in, date_out, inputvars, framevars, dbvars, loadvars>>

SpecPhone == InitPhone /\ [][NormalizePhone]_vars

\* the number n of a day or month, bare and zero-padded
Numeral(n) ==
    IF n < 10 THEN <<DigitChars[n + 1]>>
    ELSE <<DigitChars[(n \div 10) + 1], DigitChars[(n % 10) + 1]>>

Padded(n) == <<DigitChars[(n \div 10) + 1], DigitChars[(n % 10) + 1]>>

DayParts == UNION {{Numeral(n), Padded(n)} : n \in 0..MaxDayPart}

YearParts == {<<"2", "0", "2", "3">>, <<"2", "0", "2", "4">>}

ThreePartDate(a, delim, b, c) == a \o <<delim>> \o b \o <<delim>> \o c

DateInputs ==
    {ThreePartDate(a, delim, b, c) :
        a \in DayParts, delim \in {"/", "-"}, b \in DayParts, c \in YearParts}
    \cup {NoneText, <<>>, <<" ">>, <<"a", "b", "c">>, <<" ", "1", "5", "/", "0", "1", "/", "2", "0", "2", "4", " ">>, <<"a", "b", "/", "c", "d", "/", "2", "0", "2", "4">>,
          <<"2", "0", "2", "4", "-", "0", "3", "-", "0", "5">>, <<"2", "0", "2", "4", "-", "0", "2", "-", "3", "0">>, <<"2", "0", "2", "3", "-", "0", "2", "-", "2", "9">>, <<"2", "0", "2", "4", "-", "0", "2", "-", "2", "9">>,
          <<"2", "0", "2", "4", "/", "0", "3", "/", "0", "5">>, <<"2", "0", "2", "4", "-", "3", "-", "5">>}

InitDate ==
    /\ pc = "date"
    /\ date_in \in DateInputs
    /\ date_out = NoDate
    /\ phone_in = NoneText
    /\ phone_out = NoneText
    /\ customers_raw = <<>>
    /\ products_raw = <<>>
    /\ sales_raw = <<>>
    /\ committed = EmptyStore
    /\ working = EmptyStore
    /\ autoinc = FreshAutoinc
    /\ store_at_start = EmptyStore
    /\ runs = 0
    /\ NotStarted

\* sales["transaction_date"].apply(parse_flex_date), one value
ParseFlexDate ==
    /\ pc = "date"
    /\ date_out' = parse_flex_date(date_in)
    /\ pc' = "date_done"
    /\ UNCHANGED <<phone_in, phone_out, date_in, inputvars, framevars, dbvars, loadvars>>

SpecDate == InitDate /\ [][ParseFlexDate]_vars

----------------------------------------------------------------------------
(* C6 *)

\* the digits of a text, in order
DigitsOf(s) == SelectSeq(s, IsDigit)

\* the prefix-stripping rules as the specification words them
AfterPrefixRules(d) ==
    IF Len(d) = 12 /\ d[1] = "9" /\ d[2] = "1" THEN SubSeq(d, 3, 12)
    ELSE IF Len(d) = 11 /\ d[1] = "0" THEN Tail(d)
    ELSE IF Len(d) > 10 THEN SubSeq(d, Len(d) - 9, Len(d))
    ELSE d

\* C6: normalize_phone gives "+91-N" for the four spellings of every
\* ten-digit number N (N, "+91-"N, "0"N, "91"N), and null for a blank or
\* missing input and for every input whose digits, after the prefix rules,
\* are not exactly ten.
C6_PhoneCanonical ==
    pc = "phone_done" =>
        /\ \A n \in TenDigitNumbers :
              phone_in \in PhoneVariants(n) => phone_out = <<"+", "9", "1", "-">> \o n
        /\ (\/ phone_in = NoneText
            \/ \A i \in 1..Len(phone_in) : phone_in[i] = " "
            \/ Len(AfterPrefixRules(DigitsOf(phone_in))) # 10)
           => phone_out = NoneText

\* a number with the trunk prefix 0 has been normalized to its canonical form
C6_Witness ==
    /\ pc = "phone_done"
    /\ \E n \in TenDigitNumbers : phone_in = <<"0">> \o n /\ phone_out = <<"+", "9", "1", "-">> \o n

----------------------------------------------------------------------------
(* C7 *)

\* the date the rule of the specification names for parts a, b and year y:
\* month-first when b > 12, else day-first when a > 12, else month-first
RuleDate(a, b, y) ==
    LET monthfirst == b > 12 \/ a <= 12
        m == IF monthfirst THEN a ELSE b
        d == IF monthfirst THEN b ELSE a
    IN  IF m \in 1..12 /\ d \in 1..DaysInMonth(y, m)
        THEN [y |-> y, m |-> m, d |-> d]
        ELSE NoDate

\* C7: for a text a<sep>b<sep>c, a and b integers and a not of four
\* characters, parse_flex_date returns the date of the layout the rule picks
\* (month-first when b > 12, else day-first when a > 12, else month-first), or
\* null when that layout names no calendar date; "15/01/2024" gives 2024-01-15,
\* "03-04-2024" gives 2024-03-04 and "2024-03-05" gives 2024-03-05.
C7_DateLayoutRule ==
    pc = "date_done" =>
        /\ \A a \in DayParts, delim \in {"/", "-"} :
              StartsWith(date_in, a \o <<delim>>) =>
                  \A b \in DayParts, c \in YearParts :
                      date_in = ThreePartDate(a, delim, b, c) =>
                          date_out = RuleDate(IntOf(a), IntOf(b), IntOf(c))
        /\ date_in = <<"1", "5", "/", "0", "1", "/", "2", "0", "2", "4">> => date_out = [y |-> 2024, m |-> 1, d |-> 15]
        /\ date_in = <<"0", "3", "-", "0", "4", "-", "2", "0", "2", "4">> => date_out = [y |-> 2024, m |-> 3, d |-> 4]
        /\ date_in = <<"2", "0", "2", "4", "-", "0", "3", "-", "0", "5">> => date_out = [y |-> 2024, m |-> 3, d |-> 5]

\* an ambiguous text (both parts at most 12) has been read month-first
C7_Witness ==
    /\ pc = "date_done"
    /\ date_in = <<"0", "3", "-", "0", "4", "-", "2", "0", "2", "4">>
    /\ date_out = [y |-> 2024, m |-> 3, d |-> 4]

----------------------------------------------------------------------------
(* C1 *)

\* C1: the load is one atomic unit of work that includes the clearing of
\* the earlier rows: when run_etl raises, the four tables hold what they held
\* when the run started.
C1_LoadIsAtomic ==
    pc = "failed" => committed = store_at_start

----------------------------------------------------------------------------
(* C2 *)

\* C2: for each entity the counters of a successful run reconcile: raw rows =
\* loaded rows + duplicates removed + the sum of the drop counters the report
\* records for the entity.
C2_CountersReconcile ==
    pc = "done" =>
        /\ report.customers_raw = report.customers_loaded + report.customers_dupes_removed
        /\ report.products_raw = report.products_loaded + report.products_dupes_removed
        /\ report.sales_raw =
              report.orders_loaded + report.sales_dupes_removed
              + report.sales_missing_customer_dropped
              + report.sales_missing_product_dropped
              + report.sales_invalid_date_dropped

----------------------------------------------------------------------------
(* C3 *)

\* C3: after customer cleaning every customer has a non-empty email and no
\* two customers share an email.
C3_EmailsUnique ==
    pc # "extract" =>
        \A i, j \in 1..Len(customers) :
            /\ customers[i].email # <<>>
            /\ i # j => customers[i].email # customers[j].email

----------------------------------------------------------------------------
(* C4 *)

ForeignKeysHold(store) ==
    /\ \A o \in store.orders : \E c \in store.customers : c.customer_id = o.customer_id
    /\ \A it \in store.order_items :
          /\ \E o \in store.orders : o.order_id = it.order_id
          /\ \E p \in store.products : p.product_id = it.product_id

ItemsOf(store, o) == {it \in store.order_items : it.order_id = o.order_id}

\* C4: at every step of the load and at commit every order references an
\* inserted customer and every order item an inserted order and an inserted
\* product; every sales row that survives the cleaning and the integrity
\* filter gives exactly one order and exactly one item of that order, so that
\* orders_loaded = order_items_loaded = the number of surviving rows, and no
\* order has more than one item.
C4_OneOrderOneItemPerRow ==
    /\ ForeignKeysHold(working)
    /\ ForeignKeysHold(committed)
    /\ \A o \in working.orders : Cardinality(ItemsOf(working, o)) <= 1
    /\ pc = "items" =>
          /\ loaded.orders = idx /\ loaded.items = idx - 1
          /\ Cardinality(working.orders) = idx
          /\ \E o \in working.orders, c \in working.customers, i \in 1..Len(customers) :
                /\ o.order_id = autoinc.orders - 1
                /\ ItemsOf(working, o) = {}
                /\ c.customer_id = o.customer_id
                /\ customers[i].customer_id = sales[idx].customer_id
                /\ c.email = customers[i].email
    /\ pc = "orders" =>
          /\ loaded.orders = idx - 1 /\ loaded.items = idx - 1
          /\ Cardinality(working.orders) = idx - 1
          /\ \A o \in working.orders : Cardinality(ItemsOf(working, o)) = 1
    /\ pc \in {"report", "done"} =>
          /\ report.orders_loaded = Len(sales)
          /\ report.order_items_loaded = Len(sales)
          /\ Cardinality(committed.orders) = Len(sales)
          /\ Cardinality(committed.order_items) = Len(sales)
          /\ \A o \in committed.orders : Cardinality(ItemsOf(committed, o)) = 1

\* a run has committed two orders with their items, and another has
\* committed one order after the integrity filter removed a row
C4_Witness ==
    /\ pc = "done"
    /\ Len(sales_dated(sales_raw)) = 2
    /\ Len(sales) = 1
    /\ Cardinality(committed.orders) = 1
    /\ Cardinality(committed.order_items) = 1

----------------------------------------------------------------------------
(* C5 *)

\* C5: every product row the loader inserts has a price greater than zero
\* (the price is a number of cents, so it has two fractional digits).
C5_PricesPositive ==
    \A p \in working.products : p.price > 0

----------------------------------------------------------------------------
(* C8 *)

\* the indices of the deduplicated products that share the category of row i
\* and have a price that parsed
PricedPeers(p, i) ==
    {j \in 1..Len(p) : p[j].category = p[i].category /\ p[j].price_num.ok}

\* the k-th smallest price among the rows J, by rank
KthSmallest(p, J, k) ==
    LET v(j) == p[j].price_num.v
        j == CHOOSE x \in J :
                /\ Cardinality({y \in J : v(y) < v(x)}) < k
                /\ Cardinality({y \in J : v(y) <= v(x)}) >= k
    IN  v(j)

\* twice the median of the prices of the rows J
TwiceMedian(p, J) ==
    LET n == Cardinality(J)
    IN  KthSmallest(p, J, (n + 1) \div 2) + KthSmallest(p, J, (n \div 2) + 1)

\* x / 4000 of a currency unit in cents, a tie rounded away from zero
CentsOfHalfUnits(x) ==
    IF x >= 0 THEN (x + 20) \div 40 ELSE -((20 - x) \div 40)

\* the price stored for the product with the raw key id; 0 - 1 when none is stored
StoredPrice(id) ==
    LET pk == MapGet(prod_map, id)
    IN  IF \E r \in working.products : r.product_id = pk
        THEN (CHOOSE r \in working.products : r.product_id = pk).price
        ELSE 0 - 1

IsStored(id) ==
    \E r \in working.products : r.product_id = MapGet(prod_map, id)

\* C8: once the products are inserted, a product whose price text is missing
\* or unparsable has the median of the parsed prices of its canonical
\* category (the mean of the two middle ones for an even count), rounded to
\* cents; a product whose category has no parsed price is not loaded; a product
\* with a parsable price has its own price.
C8_MedianImputation ==
    pc \in {"orders", "items", "report", "done"} =>
        LET p == products_deduped(products_raw)
        IN  \A i \in 1..Len(p) :
                IF p[i].price_num.ok
                THEN /\ IsStored(p[i].product_id)
                     /\ StoredPrice(p[i].product_id) = CentsOfHalfUnits(2 * p[i].price_num.v)
                ELSE IF PricedPeers(p, i) = {}
                THEN ~IsStored(p[i].product_id)
                ELSE /\ IsStored(p[i].product_id)
                     /\ StoredPrice(p[i].product_id)
                           = CentsOfHalfUnits(TwiceMedian(p, PricedPeers(p, i)))

\* a product without a price, in a category spelled two ways whose other
\* products cost 100.00 and 300.00, has been loaded at 200.00
C8_Witness ==
    /\ pc = "done"
    /\ Len(products_raw) = 3
    /\ products_raw[1].price = <<"1", "0", "0", ".", "0", "0">> /\ products_raw[1].category = <<"F", "a", "s", "h", "i", "o", "n">>
    /\ products_raw[2].price = <<"3", "0", "0", ".", "0", "0">> /\ products_raw[2].category = <<" ", "f", "a", "s", "h", "i", "o", "n", " ">>
    /\ products_raw[3].price = <<>> /\ products_raw[3].category = <<"F", "a", "s", "h", "i", "o", "n">>
    /\ products_raw[3].product_id = <<"P", "3">>
    /\ \E r \in committed.products :
          r.product_id = MapGet(prod_map, <<"P", "3">>) /\ r.price = 20000

----------------------------------------------------------------------------
(* C9 *)

\* the positions of rows at which their key occurs for the first time
FirstOccurrences(rows, key) ==
    {i \in 1..Len(rows) : \A j \in 1..(i - 1) : rows[j][key] # rows[i][key]}

\* the n-th smallest member of a set of positions
NthOf(I, n) == CHOOSE i \in I : Cardinality({j \in I : j < i}) = n - 1

\* d holds exactly the first row of every key of rows, in the order of rows
KeepsFirstRows(rows, d, key) ==
    /\ Len(d) = Cardinality(FirstOccurrences(rows, key))
    /\ \A n \in 1..Len(d) : d[n] = rows[NthOf(FirstOccurrences(rows, key), n)]
    /\ \A m, n \in 1..Len(d) : m # n => d[m][key] # d[n][key]

\* C9: when the transform is done, deduplication by the natural key has kept
\* the first row of every key in the original order, the keys are unique, the
\* counter of removed duplicates is rows before minus rows after, and
\* deduplicating the result again changes nothing.
C9_DeduplicationFirstWins ==
    pc = "ensure" =>
        LET c == applymap_normalize_spaces(customers_raw)
            p == applymap_normalize_spaces(products_raw)
            s == applymap_normalize_spaces(sales_raw)
            cd == customers_deduped(customers_raw)
            pd == drop_duplicates(p, "product_id")
            sd == sales_deduped(sales_raw)
        IN  /\ KeepsFirstRows(c, cd, "customer_id")
            /\ KeepsFirstRows(p, pd, "product_id")
            /\ KeepsFirstRows(s, sd, "transaction_id")
            /\ drop_duplicates(cd, "customer_id") = cd
            /\ drop_duplicates(pd, "product_id") = pd
            /\ drop_duplicates(sd, "transaction_id") = sd
            /\ report.customers_dupes_removed
                  = Len(c) - Cardinality(FirstOccurrences(c, "customer_id"))
            /\ report.products_dupes_removed
                  = Len(p) - Cardinality(FirstOccurrences(p, "product_id"))
            /\ report.sales_dupes_removed
                  = Len(s) - Cardinality(FirstOccurrences(s, "transaction_id"))
            /\ [i \in 1..Len(customers) |-> customers[i].customer_id]
                  = [i \in 1..Len(cd) |-> cd[i].customer_id]
            /\ Column(products, "product_id") \subseteq Column(pd, "product_id")
            /\ Column(sales, "transaction_id") \subseteq Column(sd, "transaction_id")

\* the transform has removed one duplicate from each of the three files, the
\* rows of a repeated key differing
C9_Witness ==
    /\ pc = "ensure"
    /\ report.customers_dupes_removed = 1
    /\ report.products_dupes_removed = 1
    /\ report.sales_dupes_removed = 1
    /\ customers_raw[1] # customers_raw[2]
    /\ products_raw[1] # products_raw[2]
    /\ sales_raw[1] # sales_raw[2]

----------------------------------------------------------------------------
(* C10 *)

\* the sales rows that passed the cleaning and name a product that is not in
\* the products frame
SalesOfUnknownProduct ==
    SelectSeq(sales_dated(sales_raw),
              LAMBDA r : r.product_id \notin Column(products, "product_id"))

\* the counters of the report that count dropped sales rows for a reason
\* other than the integrity filter, and every counter that counts no drop
CountersOfOtherThings ==
    {"customers_raw", "products_raw", "sales_raw",
     "customers_dupes_removed", "products_dupes_removed", "sales_dupes_removed",
     "customers_missing_email_filled", "products_missing_price_imputed",
     "products_missing_stock_filled",
     "sales_missing_customer_dropped", "sales_missing_product_dropped",
     "sales_invalid_date_dropped",
     "customers_loaded", "products_loaded", "orders_loaded", "order_items_loaded"}

\* C10: a sales row whose product_id is not blank and names a product that
\* was dropped or never existed is not loaded, is counted in an integrity
\* filter drop counter of the report, and is not counted in
\* sales_missing_product_dropped.
C10_IntegrityDropsCounted ==
    (pc = "done" /\ Len(SalesOfUnknownProduct) > 0) =>
        /\ Cardinality(committed.orders) <= Len(sales_dated(sales_raw)) - Len(SalesOfUnknownProduct)
        /\ report.sales_missing_product_dropped
              = Len(SelectSeq(sales_with_customer(sales_raw), missing_prod))
        /\ \E k \in DOMAIN report \ CountersOfOtherThings :
              report[k] >= Len(SalesOfUnknownProduct)

----------------------------------------------------------------------------
(* C11 *)

\* C11: every connection opened during a run is released on every exit
\* path: a run that succeeded has committed the load and closed its
\* connection before the report is written; a run that raised has rolled
\* back and written no report; and no run of run_etl, ended either way,
\* leaves a connection open.
C11_ConnectionsReleased ==
    /\ pc \in {"report", "done"} => (conns = 0 /\ committed = working)
    /\ pc = "failed" => (~report_written /\ working = committed)
    /\ pc \in {"done", "failed"} => conns = 0

----------------------------------------------------------------------------
(* C12 *)

\* the stock text of the row of the products file that the frame row with
\* this key was made from
StockTextOf(id) ==
    LET p == products_deduped(products_raw)
    IN  p[CHOOSE i \in 1..Len(p) : p[i].product_id = id].stock_quantity

\* the frame rows whose stock text is missing or is not a number
RowsOfUnparsableStock ==
    {i \in 1..Len(products) : ~to_numeric(StockTextOf(products[i].product_id)).ok}

\* C12: every product row the loader inserts has a stock quantity that is an
\* integer greater than or equal to zero: a missing or unparsable stock text
\* becomes 0 and is counted in products_missing_stock_filled, and no stock
\* text, one that parses to a negative number included, gives a negative
\* stored stock.
C12_StockNonNegative ==
    /\ \A p \in working.products \cup committed.products : p.stock_quantity \in Nat
    /\ pc # "extract" =>
          /\ \A i \in 1..Len(products) : products[i].stock_num \in Nat
          /\ \A i \in RowsOfUnparsableStock : products[i].stock_num = 0
          /\ report.products_missing_stock_filled = Cardinality(RowsOfUnparsableStock)

----------------------------------------------------------------------------
(* C13 *)

\* the position in a frame of the row with this key
RowOf(frame, f, key) == CHOOSE i \in 1..Len(frame) : frame[i][f] = key

\* the contents of the four tables as a function of the three files alone:
\* the cleaned rows in file order, each table's surrogate keys counting from 1
LoadedStore(craw, praw, sraw) ==
    LET c == clean_customers(craw)
        p == clean_products(praw)
        s == clean_sales(craw, praw, sraw)
        unit_price(j) == to_decimal_2(s[j].unit_price_num)
        subtotal(j) == to_decimal_2(20 * unit_price(j) * s[j].quantity_num)
    IN  [customers |->
            {[customer_id |-> i, email |-> c[i].email] : i \in 1..Len(c)},
         products |->
            {[product_id |-> i,
              category |-> p[i].category,
              price |-> to_decimal_2(p[i].price_num),
              stock_quantity |-> p[i].stock_num] : i \in 1..Len(p)},
         orders |->
            {[order_id |-> j,
              customer_id |-> RowOf(c, "customer_id", s[j].customer_id),
              order_date |-> s[j].transaction_date_parsed,
              total_amount |-> subtotal(j)] : j \in 1..Len(s)},
         order_items |->
            {[order_item_id |-> j,
              order_id |-> j,
              product_id |-> RowOf(p, "product_id", s[j].product_id),
              quantity |-> s[j].quantity_num,
              unit_price |-> unit_price(j),
              subtotal |-> subtotal(j)] : j \in 1..Len(s)}]

\* C13: re-runs are idempotent with respect to the final state: after a
\* successful run the four tables, surrogate keys included, hold what the
\* input files alone determine, whatever the store held before; so a
\* successful run that started from the store a run on the same files
\* leaves, leaves that store as it found it.
C13_RerunIdempotent ==
    pc = "done" =>
        /\ committed = LoadedStore(customers_raw, products_raw, sales_raw)
        /\ store_at_start = LoadedStore(customers_raw, products_raw, sales_raw)
              => committed = store_at_start

\* a second run has succeeded on files whose load the store already held,
\* orders and items included, and the store is what it was
C13_Witness ==
    /\ pc = "done"
    /\ runs = 2
    /\ store_at_start = LoadedStore(customers_raw, products_raw, sales_raw)
    /\ Cardinality(store_at_start.order_items) = 2
    /\ Cardinality(store_at_start.customers) = 2
    /\ committed = store_at_start

====
